---- MODULE Spec2Model ----
(***************************************************************************)
(* Model of magstripe-go: the ISO data-block codec (encodeISODataBlock,     *)
(* decodeISODataBlock), the command engine (executeNoResult,               *)
(* executeWaitResult) over a serial port, and the MSR operations built on   *)
(* them.  Strings are sequences of bytes (0..255); Go's 0-based indices    *)
(* and half-open slices are kept, through At and Slice.                    *)
(***************************************************************************)
EXTENDS Integers, Sequences, FiniteSets, TLC

VARIABLES
    \* ---- codec harness: one call of encode / decode
    cpc,        \* "choose" | "encoded" | "ready" | "decoded"
    origin,     \* where data came from: "none" | "encode" | "truncated" | "raw"
    strips,     \* the triple given to encodeISODataBlock
    data,       \* the argument of decodeISODataBlock
    dec,        \* what decodeISODataBlock returned
    \* ---- the serial port (MSR.port) and the device behind it
    rx,          \* bytes received and not yet read
    wire,        \* bytes the device has sent that have not arrived yet
    readTimeout, \* "unset" | "short" (100 ms) | "long" (the call's timeout)
    wlog,        \* arguments of port.Write during the current operation
    \* ---- the caller of the MSR methods
    caller,      \* "quiet": calls only on a quiet line | "eager": calls while
                 \* up to MaxStale bytes of earlier answers are outstanding |
                 \* "pair": two goroutines, each making one call
    \* ---- one call of an MSR method
    fpc,         \* "idle" | "call"
    op,          \* the method and its arguments
    modes,       \* SetBPI: the modes not yet sent
    fret,        \* what the method returned
    \* ---- one call of executeWaitResult
    pc,          \* "idle" | "drain" | "write" | "poll" | "done"
    command,     \* its command argument
    response,    \* its accumulation buffer
    elapsed,     \* time.Since(startTime), in ticks
    ret,         \* its return values
    \* ---- history
    answer,      \* what the device sent in answer to the command
    pollEnd,     \* why polling ended: "escape" | "error" | "timeout"
    stale,       \* bytes of earlier answers were in flight or unread at the write
    prevErr,     \* err of the previous executeWaitResult
    trace,       \* the transport operations of the call, in order (reads that
                 \* repeat are entered once)
    \* ---- a second goroutine calling SetCoercivity(HiCo) on the same MSR
    pc2,         \* "idle" | "drain" | "write" | "poll" | "done" | "returned"
    response2,   \* the accumulation buffer of its executeWaitResult
    elapsed2,    \* its time.Since(startTime), in ticks
    ret2         \* its return values

cvars == <<cpc, origin, strips, data, dec>>
pvars == <<rx, wire, readTimeout, wlog>>
fvars == <<caller, fpc, op, modes, fret>>
evars == <<pc, command, response, elapsed, ret>>
hvars == <<answer, pollEnd, stale, prevErr, trace>>
gvars == <<pc2, response2, elapsed2, ret2>>
vars == <<cvars, pvars, fvars, evars, hvars, gvars>>

----------------------------------------------------------------------------
(* Bytes of the protocol *)

EscapeCode == 27
EndCode == 28
ChS == 115
ChQ == 63
ChA == 65
Mark1 == 1
Mark2 == 2
Mark3 == 3
Ch0 == 48
Ch1 == Ch0 + 1
CmdReset == 97
CmdRead == 114
CmdReadRaw == 109
CmdWrite == 119
CmdWriteRaw == 110
CmdErase == 99
CmdHiCo == 120
CmdLoCo == 121
CmdBPI == 98
CmdBPC == 111
BPI1Hi == 161
BPI1Lo == 160
BPI2Hi == 210
BPI2Lo == 75
BPI3Hi == 193
BPI3Lo == 192
MinBPC == 5
MaxBPC == 8

----------------------------------------------------------------------------
(* Bounds of the model *)

MaxTrackLen == 2
MaxHead == 4
MaxMid == 5
MaxTail == 2
MaxStale == 2
TimeoutTicks == 2

----------------------------------------------------------------------------
(* Go strings *)

\* s[i], 0-based
At(s, i) == s[i + 1]

\* s[a:b]; Go panics unless 0 <= a <= b <= len(s)
SliceOK(s, a, b) == 0 <= a /\ a <= b /\ b <= Len(s)
Slice(s, a, b) == [k \in 1..(b - a) |-> s[a + k]]

\* strings.Contains(s, string(c)) for a one-byte string
Contains(s, c) == \E k \in 1..Len(s) : s[k] = c

\* strings.Index(s[start:], string(c)): offset of the first c at or after
\* start, relative to start, or -1
IndexFrom(s, start, c) ==
    IF \E k \in start..(Len(s) - 1) : At(s, k) = c
    THEN (CHOOSE k \in start..(Len(s) - 1) :
              /\ At(s, k) = c
              /\ \A j \in start..(k - 1) : At(s, j) # c) - start
    ELSE -1

\* strings.LastIndex(s, string(c))
LastIndex(s, c) ==
    IF \E k \in 0..(Len(s) - 1) : At(s, k) = c
    THEN CHOOSE k \in 0..(Len(s) - 1) :
              /\ At(s, k) = c
              /\ \A j \in (k + 1)..(Len(s) - 1) : At(s, j) # c
    ELSE -1

\* all byte strings of length at most n over the bytes in B
StringsUpTo(B, n) == UNION {[1..k -> B] : k \in 0..n}

----------------------------------------------------------------------------
(* The frame codec *)

Header == <<EscapeCode, ChS, EscapeCode, Mark1>>
Trailer == <<ChQ, EndCode>>

\* mutant: the second and third strips change places
encodeISODataBlock_Swapped(strip1, strip2, strip3) ==
    Header \o strip1 \o <<EscapeCode, Mark2>> \o strip3
           \o <<EscapeCode, Mark3>> \o strip2 \o Trailer

encodeISODataBlock(strip1, strip2, strip3) ==
    Header \o strip1 \o <<EscapeCode, Mark2>> \o strip2
           \o <<EscapeCode, Mark3>> \o strip3 \o Trailer

DecodeFail(e) == [err |-> e, strip1 |-> <<>>, strip2 |-> <<>>, strip3 |-> <<>>]
DecodeOK(s1, s2, s3) == [err |-> "none", strip1 |-> s1, strip2 |-> s2, strip3 |-> s3]

\* mutant: only the first two header bytes are compared
HeaderOK_TwoBytes(d) == ~(Len(d) < 4 \/ Slice(d, 0, 2) # Slice(Header, 0, 2))

HeaderOK(d) == ~(Len(d) < 4 \/ Slice(d, 0, 4) # Header)

\* mutant: the end of the input is not compared at all
TrailerOK_Skipped(d) == ~(Len(d) < 2)

\* mutant: only the final FS is compared
TrailerOK_LastByte(d) == ~(Len(d) < 2 \/ At(d, Len(d) - 1) # EndCode)

TrailerOK(d) == ~(Len(d) < 2 \/ Slice(d, Len(d) - 2, Len(d)) # Trailer)

\* mutant: the third strip is taken whatever its first byte is
DecodeStrip3_NoEscapeTest(d, s1, s2, strip3Start) ==
    IF SliceOK(d, strip3Start, Len(d) - 2)
    THEN DecodeOK(s1, s2, Slice(d, strip3Start, Len(d) - 2))
    ELSE DecodeFail("panic")

\* the third strip, from strip3Start
DecodeStrip3(d, s1, s2, strip3Start) ==
    IF strip3Start < Len(d) /\ At(d, strip3Start) # EscapeCode
    THEN IF SliceOK(d, strip3Start, Len(d) - 2)
         THEN DecodeOK(s1, s2, Slice(d, strip3Start, Len(d) - 2))
         ELSE DecodeFail("panic")
    ELSE DecodeOK(s1, s2, <<>>)

\* mutant: the bytes after the second strip are not compared with ESC 0x03
DecodeStrip2_NoMarker(d, s1, strip2Start) ==
    LET idx == IndexFrom(d, strip2Start, EscapeCode) IN
    IF ~SliceOK(d, strip2Start, Len(d)) THEN DecodeFail("panic")
    ELSE IF idx = -1 THEN DecodeFail("esc2")
    ELSE LET found      == idx + strip2Start
             empty      == found = strip2Start
             strip2End  == IF empty THEN found + 2 ELSE found
             s2         == IF empty THEN <<>> ELSE Slice(d, strip2Start, found)
             strip3Start == strip2End + 2
         IN IF strip3Start >= Len(d)
            THEN DecodeFail("marker3")
            ELSE DecodeStrip3(d, s1, s2, strip3Start)

\* the second strip, from strip2Start
DecodeStrip2(d, s1, strip2Start) ==
    LET idx == IndexFrom(d, strip2Start, EscapeCode) IN
    IF ~SliceOK(d, strip2Start, Len(d)) THEN DecodeFail("panic")
    ELSE IF idx = -1 THEN DecodeFail("esc2")
    ELSE LET found      == idx + strip2Start
             empty      == found = strip2Start
             strip2End  == IF empty THEN found + 2 ELSE found
             s2         == IF empty THEN <<>> ELSE Slice(d, strip2Start, found)
             strip3Start == strip2End + 2
         IN IF strip3Start >= Len(d) THEN DecodeFail("marker3")
            ELSE IF ~SliceOK(d, strip2End, strip3Start) THEN DecodeFail("panic")
            ELSE IF Slice(d, strip2End, strip3Start) # <<EscapeCode, Mark3>>
            THEN DecodeFail("marker3")
            ELSE DecodeStrip3(d, s1, s2, strip3Start)

\* mutant: an escape byte at the start of the first strip is not skipped
DecodeStrip1_NoSkip(d) ==
    LET strip1Start == 4
        idx == IndexFrom(d, strip1Start, EscapeCode) IN
    IF ~SliceOK(d, strip1Start, Len(d)) THEN DecodeFail("panic")
    ELSE IF idx = -1 THEN DecodeFail("esc1")
    ELSE LET found      == idx + strip1Start
             empty      == found = strip1Start
             strip1End  == found
             s1         == IF empty THEN <<>> ELSE Slice(d, strip1Start, found)
             strip2Start == strip1End + 2
         IN IF strip2Start >= Len(d) THEN DecodeFail("marker2")
            ELSE IF ~SliceOK(d, strip1End, strip2Start) THEN DecodeFail("panic")
            ELSE IF Slice(d, strip1End, strip2Start) # <<EscapeCode, Mark2>>
            THEN DecodeFail("marker2")
            ELSE DecodeStrip2(d, s1, strip2Start)

\* the first strip, from offset 4; an index or slice out of range is a
\* run-time panic
DecodeStrip1(d) ==
    LET strip1Start == 4
        idx == IndexFrom(d, strip1Start, EscapeCode) IN
    IF ~SliceOK(d, strip1Start, Len(d)) THEN DecodeFail("panic")
    ELSE IF idx = -1 THEN DecodeFail("esc1")
    ELSE LET found      == idx + strip1Start
             empty      == found = strip1Start
             strip1End  == IF empty THEN found + 2 ELSE found
             s1         == IF empty THEN <<>> ELSE Slice(d, strip1Start, found)
             strip2Start == strip1End + 2
         IN IF strip2Start >= Len(d) THEN DecodeFail("marker2")
            ELSE IF ~SliceOK(d, strip1End, strip2Start) THEN DecodeFail("panic")
            ELSE IF Slice(d, strip1End, strip2Start) # <<EscapeCode, Mark2>>
            THEN DecodeFail("marker2")
            ELSE DecodeStrip2(d, s1, strip2Start)

decodeISODataBlock(d) ==
    IF ~HeaderOK(d) THEN DecodeFail("header")
    ELSE IF ~TrailerOK(d) THEN DecodeFail("end")
    ELSE DecodeStrip1(d)

----------------------------------------------------------------------------
(* Go conversions *)

\* byte(n)
ByteOf(n) == n % 256

\* string(b) for a byte b: the UTF-8 encoding of the code point b
GoString(b) == IF b < 128 THEN <<b>> ELSE <<192 + (b \div 64), 128 + (b % 64)>>

----------------------------------------------------------------------------
(* The device: what it may send in answer to a command *)

StatusBytes == {Ch0, Ch1}
Frame == encodeISODataBlock(<<ChA>>, <<ChA>>, <<ChA>>)
\* a status alone, a status with a result byte, data then a status
WellFormed ==
    {<<EscapeCode, s>> : s \in StatusBytes}
        \cup {<<EscapeCode, Ch0, ChA>>}
        \cup {<<ChA, EscapeCode, s>> : s \in StatusBytes}
\* a track data block, then a status: the answer to a read command
WithFrame == {Frame \o <<EscapeCode, s>> : s \in StatusBytes}
\* silence, bytes without an escape byte, an escape byte and nothing after it
Malformed == {<<>>, <<ChA>>, <<ChA, EscapeCode>>}
Answers(cmd) ==
    WellFormed \cup Malformed
        \cup (IF cmd[1] \in {CmdRead, CmdReadRaw} THEN WithFrame ELSE {})

----------------------------------------------------------------------------
(* executeWaitResult *)

NoRet == [status |-> 0, result |-> <<>>, data |-> <<>>, err |-> "unset"]
RetErr(e) == [status |-> 0, result |-> <<>>, data |-> <<>>, err |-> e]

\* mutant: the response counts as complete only once a byte follows the
\* escape byte
ResponseComplete_WithStatus(r) ==
    Len(r) > 0 /\ \E k \in 1..(Len(r) - 1) : r[k] = EscapeCode

\* the test that ends polling after a non-empty read
ResponseComplete(r) == Len(r) > 0 /\ Contains(r, EscapeCode)

\* mutant: the response is split at its first escape byte
SplitPos_First(r) == IF Contains(r, EscapeCode) THEN IndexFrom(r, 0, EscapeCode) ELSE -1

\* the escape byte at which the response is split
SplitPos(r) == LastIndex(r, EscapeCode)

\* mutant: a status byte with nothing after it counts as incomplete
ParseResponse_StatusAlone(r) ==
    IF Len(r) = 0 THEN RetErr("timeout")
    ELSE LET pos == SplitPos(r) IN
         IF pos = -1 THEN RetErr("format")
         ELSE IF pos + 2 >= Len(r) THEN RetErr("incomplete")
         ELSE [status |-> At(r, pos + 1),
               result |-> IF pos + 2 < Len(r) THEN Slice(r, pos + 2, Len(r)) ELSE <<>>,
               data   |-> IF pos > 0 THEN Slice(r, 0, pos) ELSE <<>>,
               err    |-> "none"]

\* the return values computed from the accumulated response
ParseResponse(r) ==
    IF Len(r) = 0 THEN RetErr("timeout")
    ELSE LET pos == SplitPos(r) IN
         IF pos = -1 THEN RetErr("format")
         ELSE IF pos + 1 >= Len(r) THEN RetErr("incomplete")
         ELSE [status |-> At(r, pos + 1),
               result |-> IF pos + 2 < Len(r) THEN Slice(r, pos + 2, Len(r)) ELSE <<>>,
               data   |-> IF pos > 0 THEN Slice(r, 0, pos) ELSE <<>>,
               err    |-> "none"]

\* the history of transport operations, a repeated read entered once
Log(t, e) ==
    IF e \in {"drain", "poll"} /\ t # <<>> /\ t[Len(t)] = e THEN t ELSE Append(t, e)

\* mutant: the accumulation buffer outlives the call
BeginWait_KeepBuffer(cmd) ==
    /\ pc' = "drain"
    /\ command' = cmd
    /\ response' = response
    /\ elapsed' = 0
    /\ ret' = NoRet
    /\ answer' = <<>>
    /\ pollEnd' = "none"
    /\ stale' = FALSE
    /\ prevErr' = ret.err
    /\ trace' = <<>>

\* entry: fresh locals
BeginWait(cmd) ==
    /\ pc' = "drain"
    /\ command' = cmd
    /\ response' = <<>>
    /\ elapsed' = 0
    /\ ret' = NoRet
    /\ answer' = <<>>
    /\ pollEnd' = "none"
    /\ stale' = FALSE
    /\ prevErr' = ret.err
    /\ trace' = <<>>

\* the clear-buffer loop: one Read; n > 0 loops, n = 0 (no data, or a read
\* error, which is dropped) leaves the loop
DrainRead ==
    /\ pc = "drain"
    /\ \/ /\ rx # <<>>
          /\ rx' = <<>>
          /\ pc' = "drain"
          /\ trace' = Log(trace, "drain")
       \/ /\ pc' = "write"
          /\ trace' = Log(trace, "drain0")
          /\ UNCHANGED rx
    /\ UNCHANGED <<cvars, wire, readTimeout, wlog, fvars, command, response,
                   elapsed, ret, answer, pollEnd, stale, prevErr>>
    /\ UNCHANGED gvars

\* port.Write(ESC + command) succeeds; the device answers (or stays silent);
\* the settle delay; startTime; SetReadTimeout(timeout)
WriteOK ==
    /\ pc = "write"
    /\ wlog' = Append(wlog, <<EscapeCode>> \o command)
    /\ \E a \in Answers(command) :
          /\ wire' = wire \o a
          /\ answer' = a
    /\ stale' = (wire # <<>> \/ rx # <<>>)
    /\ readTimeout' = "long"
    /\ elapsed' = 0
    /\ pc' = "poll"
    /\ trace' = Log(trace, "write")
    /\ UNCHANGED <<cvars, rx, fvars, command, response, ret, pollEnd, prevErr>>
    /\ UNCHANGED gvars

\* mutant: a failed write is not returned, the call goes on to poll
WriteFail_GoesOn ==
    /\ pc = "write"
    /\ wlog' = Append(wlog, <<EscapeCode>> \o command)
    /\ pc' = "poll"
    /\ trace' = Log(trace, "writefail")
    /\ UNCHANGED <<cvars, rx, wire, readTimeout, fvars, command, response,
                   elapsed, ret, answer, pollEnd, stale, prevErr>>
    /\ UNCHANGED gvars

\* port.Write fails: return 0, "", "", err
WriteFail ==
    /\ pc = "write"
    /\ wlog' = Append(wlog, <<EscapeCode>> \o command)
    /\ ret' = RetErr("write")
    /\ pc' = "done"
    /\ trace' = Log(trace, "writefail")
    /\ UNCHANGED <<cvars, rx, wire, readTimeout, fvars, command, response,
                   elapsed, answer, pollEnd, stale, prevErr>>
    /\ UNCHANGED gvars

\* leaving the poll loop: parse, and the deferred SetReadTimeout(oldTimeout)
EndPoll(r, why) ==
    /\ ret' = ParseResponse(r)
    /\ pollEnd' = why
    /\ readTimeout' = "short"
    /\ pc' = "done"

\* one iteration of the poll loop whose Read returns n > 0, at once or after
\* blocking for less than the read timeout
PollData ==
    /\ pc = "poll" /\ elapsed < TimeoutTicks
    /\ rx # <<>>
    /\ response' = response \o rx
    /\ rx' = <<>>
    /\ \E t \in elapsed..(elapsed + TimeoutTicks - 1) : elapsed' = t
    /\ trace' = Log(trace, "poll")
    /\ IF ResponseComplete(response')
       THEN EndPoll(response', "escape")
       ELSE UNCHANGED <<ret, pollEnd, readTimeout, pc>>
    /\ UNCHANGED <<cvars, wire, wlog, fvars, command, answer, stale, prevErr>>
    /\ UNCHANGED gvars

\* one iteration whose Read returns 0, nil, after blocking for at most the
\* read timeout: sleep the poll interval
PollEmpty ==
    /\ pc = "poll" /\ elapsed < TimeoutTicks
    /\ rx = <<>>
    /\ \E t \in (elapsed + 1)..(elapsed + TimeoutTicks) : elapsed' = t
    /\ trace' = Log(trace, "poll")
    /\ UNCHANGED <<cvars, pvars, fvars, pc, command, response, ret,
                   answer, pollEnd, stale, prevErr>>
    /\ UNCHANGED gvars

\* one iteration whose Read returns 0 and an error: break
PollError ==
    /\ pc = "poll" /\ elapsed < TimeoutTicks
    /\ EndPoll(response, "error")
    /\ trace' = Log(trace, "poll")
    /\ UNCHANGED <<cvars, rx, wire, wlog, fvars, command, response, elapsed,
                   answer, stale, prevErr>>
    /\ UNCHANGED gvars

\* the loop condition fails: time.Since(startTime) >= timeout
PollTimeout ==
    /\ pc = "poll" /\ elapsed >= TimeoutTicks
    /\ EndPoll(response, "timeout")
    /\ UNCHANGED <<cvars, rx, wire, wlog, fvars, command, response, elapsed,
                   answer, stale, prevErr, trace>>
    /\ UNCHANGED gvars

\* the line: the next byte in flight arrives at the port, at any time (bytes
\* that arrive between two reads are read together)
Arrive ==
    /\ wire # <<>>
    /\ rx' = Append(rx, Head(wire))
    /\ wire' = Tail(wire)
    /\ UNCHANGED <<cvars, readTimeout, wlog, fvars, evars, hvars>>
    /\ UNCHANGED gvars

----------------------------------------------------------------------------
(* The MSR methods *)

E3 == <<<<>>, <<>>, <<>>>>
NoOp == [name |-> "none", args |-> <<>>]
NoFret == [err |-> "unset", name |-> "", status |-> 0, out |-> E3]
FretOK(o) == [err |-> "none", name |-> "", status |-> 0, out |-> o]
FretErr(e) == [err |-> e, name |-> "", status |-> 0, out |-> E3]
\* fmt.Errorf("<name> error: %c", status)
FretStatus(n, st) == [err |-> "status", name |-> n, status |-> st, out |-> E3]

\* the word each method puts in front of " error: %c"
ErrName(m) ==
    CASE m = "ReadTracks"     -> "read"
      [] m = "WriteTracks"    -> "write"
      [] m = "EraseTracks"    -> "erase"
      [] m = "SetCoercivity"  -> "set_coercivity"
      [] m = "SetBPC"         -> "set_bpc"
      [] m = "SetBPI"         -> "set_bpi"
      [] m = "ReadRawTracks"  -> "read"
      [] m = "WriteRawTracks" -> "write"

\* mutant: any digit counts as success
StatusOK_AnyDigit(st) == st \in Ch0..(Ch0 + 9)

\* the success test of every method
StatusOK(st) == st = Ch0

\* mutant: ReadTracks decodes before it looks at the status
FacadeResult_DecodeFirst(o, r) ==
    IF r.err # "none" THEN FretErr(r.err)
    ELSE IF o.name = "ReadTracks"
         THEN LET d == decodeISODataBlock(r.data) IN
              IF d.err = "none" THEN FretOK(<<d.strip1, d.strip2, d.strip3>>)
              ELSE IF ~StatusOK(r.status) THEN FretStatus(ErrName(o.name), r.status)
              ELSE FretErr(d.err)
    ELSE IF ~StatusOK(r.status) THEN FretStatus(ErrName(o.name), r.status)
    ELSE IF o.name = "ReadRawTracks" THEN FretOK(<<r.data, <<>>, <<>>>>)
    ELSE FretOK(E3)

\* what a method returns once executeWaitResult has returned r
FacadeResult(o, r) ==
    IF r.err # "none" THEN FretErr(r.err)
    ELSE IF ~StatusOK(r.status) THEN FretStatus(ErrName(o.name), r.status)
    ELSE IF o.name = "ReadTracks"
         THEN LET d == decodeISODataBlock(r.data) IN
              IF d.err # "none" THEN FretErr(d.err)
              ELSE FretOK(<<d.strip1, d.strip2, d.strip3>>)
    ELSE IF o.name = "ReadRawTracks" THEN FretOK(<<r.data, <<>>, <<>>>>)
    ELSE FretOK(E3)

\* mutant: the bits of tracks 2 and 3 are exchanged
EraseMask_Swapped(t1, t2, t3) ==
    (IF t1 THEN 1 ELSE 0) + (IF t2 THEN 4 ELSE 0) + (IF t3 THEN 2 ELSE 0)

\* EraseTracks: mask |= 1, 2, 4
EraseMask(t1, t2, t3) ==
    (IF t1 THEN 1 ELSE 0) + (IF t2 THEN 2 ELSE 0) + (IF t3 THEN 4 ELSE 0)

EraseCommand(t1, t2, t3) == <<CmdErase>> \o GoString(ByteOf(EraseMask(t1, t2, t3)))

CoercivityCommand(hico) == IF hico THEN <<CmdHiCo>> ELSE <<CmdLoCo>>

BPCCommand(b1, b2, b3) ==
    <<CmdBPC>> \o GoString(ByteOf(b1)) \o GoString(ByteOf(b2)) \o GoString(ByteOf(b3))

\* SetBPI: the mode of one track, a one-byte string literal, or none for nil
BPIMode(b, hi, lo) ==
    IF b = "nil" THEN <<>> ELSE IF b = "HiBPI" THEN <<<<hi>>>> ELSE <<<<lo>>>>
BPIModes(b1, b2, b3) ==
    BPIMode(b1, BPI1Hi, BPI1Lo) \o BPIMode(b2, BPI2Hi, BPI2Lo)
        \o BPIMode(b3, BPI3Hi, BPI3Lo)
\* mutant: the mode goes through string(byte(...)), as the BPC values do
BPICommand_Converted(mode) == <<CmdBPI>> \o GoString(ByteOf(mode[1]))

BPICommand(mode) == <<CmdBPI>> \o mode

WriteCommand(t1, t2, t3) == <<CmdWrite>> \o encodeISODataBlock(t1, t2, t3)

WriteRawCommand(t1, t2, t3) ==
    <<CmdWriteRaw>> \o Header \o GoString(ByteOf(Len(t1))) \o t1
        \o <<EscapeCode, Mark2>> \o GoString(ByteOf(Len(t2))) \o t2
        \o <<EscapeCode, Mark3>> \o GoString(ByteOf(Len(t3))) \o t3 \o Trailer

\* arguments the methods are called with
TrackArgs == {<<>>, <<ChA>>, <<EscapeCode>>}
RawArgs == {<<>>, <<ChA>>}
BPIArgs == {"nil", "HiBPI", "LoBPI"}
BPCArgs == MinBPC..MaxBPC

\* when the caller starts a method
Quiet == wire = <<>> /\ rx = <<>>
CallerMayCall ==
    /\ fpc = "idle"
    /\ CASE caller = "quiet" -> Quiet
         [] caller = "eager" -> Len(wire) + Len(rx) <= MaxStale
         [] caller = "pair"  -> op = NoOp

\* a method calling executeWaitResult(cmd, 10*time.Second)
StartCall(o, cmd, ms) ==
    /\ fpc' = "call"
    /\ op' = o
    /\ modes' = ms
    /\ wlog' = <<>>
    /\ fret' = NoFret
    /\ BeginWait(cmd)
    /\ UNCHANGED <<cvars, rx, wire, readTimeout, caller>>
    /\ UNCHANGED gvars

ReadTracks ==
    /\ CallerMayCall
    /\ StartCall([name |-> "ReadTracks", args |-> <<>>], <<CmdRead>>, <<>>)

ReadRawTracks ==
    /\ CallerMayCall
    /\ StartCall([name |-> "ReadRawTracks", args |-> <<>>], <<CmdReadRaw>>, <<>>)

WriteTracks ==
    /\ CallerMayCall
    /\ \E t1 \in TrackArgs, t2 \in TrackArgs, t3 \in TrackArgs :
        StartCall([name |-> "WriteTracks", args |-> <<t1, t2, t3>>],
                  WriteCommand(t1, t2, t3), <<>>)

WriteRawTracks ==
    /\ CallerMayCall
    /\ \E t1 \in RawArgs, t2 \in RawArgs, t3 \in RawArgs :
        StartCall([name |-> "WriteRawTracks", args |-> <<t1, t2, t3>>],
                  WriteRawCommand(t1, t2, t3), <<>>)

EraseTracks ==
    /\ CallerMayCall
    /\ \E t1 \in BOOLEAN, t2 \in BOOLEAN, t3 \in BOOLEAN :
        StartCall([name |-> "EraseTracks", args |-> <<t1, t2, t3>>],
                  EraseCommand(t1, t2, t3), <<>>)

SetCoercivity ==
    /\ CallerMayCall
    /\ \E hico \in BOOLEAN :
        StartCall([name |-> "SetCoercivity", args |-> <<hico>>],
                  CoercivityCommand(hico), <<>>)

SetBPC ==
    /\ CallerMayCall
    /\ \E b1 \in BPCArgs, b2 \in BPCArgs, b3 \in BPCArgs :
        StartCall([name |-> "SetBPC", args |-> <<b1, b2, b3>>],
                  BPCCommand(b1, b2, b3), <<>>)

\* SetBPI with at least one track set: the first mode is sent
SetBPI ==
    \E b1 \in BPIArgs, b2 \in BPIArgs, b3 \in BPIArgs :
        LET ms == BPIModes(b1, b2, b3) IN
        /\ CallerMayCall
        /\ ms # <<>>
        /\ StartCall([name |-> "SetBPI", args |-> <<b1, b2, b3>>],
                     BPICommand(Head(ms)), Tail(ms))

\* SetBPI(nil, nil, nil): the loop body never runs
SetBPINone ==
    /\ CallerMayCall
    /\ op' = [name |-> "SetBPI", args |-> <<"nil", "nil", "nil">>]
    /\ modes' = <<>>
    /\ wlog' = <<>>
    /\ fret' = FretOK(E3)
    /\ UNCHANGED <<cvars, rx, wire, readTimeout, caller, fpc, evars, hvars>>
    /\ UNCHANGED gvars

\* mutant: the next mode is sent whatever status the previous one got
SetBPINext_IgnoresStatus ==
    /\ fpc = "call" /\ pc = "done"
    /\ op.name = "SetBPI"
    /\ ret.err = "none"
    /\ modes # <<>>
    /\ modes' = Tail(modes)
    /\ BeginWait(BPICommand(Head(modes)))
    /\ UNCHANGED <<cvars, pvars, caller, fpc, op, fret>>
    /\ UNCHANGED gvars

\* SetBPI: the previous mode was accepted, the next one is sent
SetBPINext ==
    /\ fpc = "call" /\ pc = "done"
    /\ op.name = "SetBPI"
    /\ ret.err = "none" /\ StatusOK(ret.status)
    /\ modes # <<>>
    /\ modes' = Tail(modes)
    /\ BeginWait(BPICommand(Head(modes)))
    /\ UNCHANGED <<cvars, pvars, caller, fpc, op, fret>>
    /\ UNCHANGED gvars

\* the method returns; startTime goes out of scope
Return ==
    /\ fpc = "call" /\ pc = "done"
    /\ ~(op.name = "SetBPI" /\ ret.err = "none" /\ StatusOK(ret.status) /\ modes # <<>>)
    /\ fret' = FacadeResult(op, ret)
    /\ fpc' = "idle"
    /\ pc' = "idle"
    /\ elapsed' = 0
    /\ UNCHANGED <<cvars, pvars, caller, op, modes, command, response, ret, hvars>>
    /\ UNCHANGED gvars

\* mutant: the input buffer is emptied before the write
Reset_Drains ==
    /\ CallerMayCall
    /\ op' = [name |-> "Reset", args |-> <<>>]
    /\ modes' = <<>>
    /\ rx' = <<>>
    /\ wlog' = << <<EscapeCode, CmdReset>> >>
    /\ \/ trace' = <<"write">> /\ fret' = FretErr("none")
       \/ trace' = <<"writefail">> /\ fret' = FretErr("write")
    /\ UNCHANGED <<cvars, wire, readTimeout, caller, fpc, evars,
                   answer, pollEnd, stale, prevErr>>
    /\ UNCHANGED gvars

\* Reset: executeNoResult("a"): one write, which succeeds (nil is returned
\* after the settle delay) or fails (its error is returned)
Reset ==
    /\ CallerMayCall
    /\ op' = [name |-> "Reset", args |-> <<>>]
    /\ modes' = <<>>
    /\ wlog' = << <<EscapeCode, CmdReset>> >>
    /\ \/ trace' = <<"write">> /\ fret' = FretErr("none")
       \/ trace' = <<"writefail">> /\ fret' = FretErr("write")
    /\ UNCHANGED <<cvars, rx, wire, readTimeout, caller, fpc, evars,
                   answer, pollEnd, stale, prevErr>>
    /\ UNCHANGED gvars

\* after NewMSR: the port is open and Reset has been sent
EInit ==
    /\ caller \in {"quiet", "eager", "pair"}
    /\ rx = <<>> /\ wire = <<>>
    /\ readTimeout = "unset"
    /\ wlog = << <<EscapeCode, CmdReset>> >>
    /\ fpc = "idle" /\ op = NoOp /\ modes = <<>> /\ fret = NoFret
    /\ pc = "idle" /\ command = <<>> /\ response = <<>> /\ elapsed = 0
    /\ ret = NoRet
    /\ answer = <<>> /\ pollEnd = "none" /\ stale = FALSE /\ prevErr = "unset"
    /\ trace = <<>>
    /\ pc2 = "idle" /\ response2 = <<>> /\ elapsed2 = 0 /\ ret2 = NoRet

----------------------------------------------------------------------------
(* A second goroutine: SetCoercivity(HiCo) called on the same MSR while the
   first goroutine's call may be in progress. MSR holds the port and nothing
   else, and no method takes a lock, so the statements of the two calls
   interleave freely. *)

Command2 == CoercivityCommand(TRUE)
g1vars == <<cvars, fvars, evars, hvars>>

\* the second goroutine enters executeWaitResult
Call2 ==
    /\ caller = "pair"
    /\ pc2 = "idle"
    /\ pc2' = "drain"
    /\ response2' = <<>>
    /\ elapsed2' = 0
    /\ ret2' = NoRet
    /\ UNCHANGED <<g1vars, pvars>>

\* its clear-buffer loop
DrainRead2 ==
    /\ pc2 = "drain"
    /\ \/ /\ rx # <<>>
          /\ rx' = <<>>
          /\ pc2' = "drain"
       \/ /\ pc2' = "write"
          /\ UNCHANGED rx
    /\ UNCHANGED <<g1vars, wire, readTimeout, wlog, response2, elapsed2, ret2>>

\* its write succeeds; the device answers; SetReadTimeout(timeout)
WriteOK2 ==
    /\ pc2 = "write"
    /\ wlog' = Append(wlog, <<EscapeCode>> \o Command2)
    /\ \E a \in Answers(Command2) : wire' = wire \o a
    /\ readTimeout' = "long"
    /\ elapsed2' = 0
    /\ pc2' = "poll"
    /\ UNCHANGED <<g1vars, rx, response2, ret2>>

\* its write fails
WriteFail2 ==
    /\ pc2 = "write"
    /\ wlog' = Append(wlog, <<EscapeCode>> \o Command2)
    /\ ret2' = RetErr("write")
    /\ pc2' = "done"
    /\ UNCHANGED <<g1vars, rx, wire, readTimeout, response2, elapsed2>>

\* it leaves its poll loop: parse, and the deferred SetReadTimeout(oldTimeout)
EndPoll2(r) ==
    /\ ret2' = ParseResponse(r)
    /\ readTimeout' = "short"
    /\ pc2' = "done"

\* its poll loop: a Read that returns n > 0
PollData2 ==
    /\ pc2 = "poll" /\ elapsed2 < TimeoutTicks
    /\ rx # <<>>
    /\ response2' = response2 \o rx
    /\ rx' = <<>>
    /\ \E t \in elapsed2..(elapsed2 + TimeoutTicks - 1) : elapsed2' = t
    /\ IF ResponseComplete(response2')
       THEN EndPoll2(response2')
       ELSE UNCHANGED <<ret2, readTimeout, pc2>>
    /\ UNCHANGED <<g1vars, wire, wlog>>

\* its poll loop: a Read that returns 0, nil
PollEmpty2 ==
    /\ pc2 = "poll" /\ elapsed2 < TimeoutTicks
    /\ rx = <<>>
    /\ \E t \in (elapsed2 + 1)..(elapsed2 + TimeoutTicks) : elapsed2' = t
    /\ UNCHANGED <<g1vars, pvars, pc2, response2, ret2>>

\* its poll loop: a Read that returns 0 and an error
PollError2 ==
    /\ pc2 = "poll" /\ elapsed2 < TimeoutTicks
    /\ EndPoll2(response2)
    /\ UNCHANGED <<g1vars, rx, wire, wlog, response2, elapsed2>>

\* its poll loop: the loop condition fails
PollTimeout2 ==
    /\ pc2 = "poll" /\ elapsed2 >= TimeoutTicks
    /\ EndPoll2(response2)
    /\ UNCHANGED <<g1vars, rx, wire, wlog, response2, elapsed2>>

\* its SetCoercivity returns
Return2 ==
    /\ pc2 = "done"
    /\ pc2' = "returned"
    /\ elapsed2' = 0
    /\ UNCHANGED <<g1vars, pvars, response2, ret2>>

----------------------------------------------------------------------------
(* Codec harness: inputs of the codec *)

\* bytes of escape-free payloads: a letter and the two trailer bytes
PayloadBytes == {ChA, ChQ, EndCode}
Payloads == StringsUpTo(PayloadBytes, MaxTrackLen)

\* arbitrary starts of an input, followed by nothing or by a well-formed rest
HeadBytes == {EscapeCode, ChS, Mark1, ChA}
Rests == { <<>>, Trailer,
           <<ChA, EscapeCode, Mark2, ChA, EscapeCode, Mark3, ChA>> \o Trailer }
HeadInputs == {h \o r : h \in StringsUpTo(HeadBytes, MaxHead), r \in Rests}

\* inputs with the header, an arbitrary middle and one of several endings
MidBytes == {EscapeCode, Mark2, Mark3, ChA}
Endings == { <<>>, Trailer, <<ChQ>>, <<EndCode>> }
FramedInputs == {Header \o m \o e : m \in StringsUpTo(MidBytes, MaxMid), e \in Endings}

\* inputs with the header, both markers and the terminator: each of the
\* first two fields empty, a payload, or an escape byte and one more byte;
\* any bytes as the third field
FieldForms == { <<>>, <<ChA>>, <<EscapeCode, ChA>>, <<EscapeCode, EscapeCode>>,
                <<EscapeCode, Mark2>> }
TailBytes == {EscapeCode, ChA}
MarkedInputs ==
    {Header \o f1 \o <<EscapeCode, Mark2>> \o f2 \o <<EscapeCode, Mark3>> \o t \o Trailer :
        f1 \in FieldForms, f2 \in FieldForms, t \in StringsUpTo(TailBytes, MaxTail)}

NoDec == [err |-> "unset", strip1 |-> <<>>, strip2 |-> <<>>, strip3 |-> <<>>]

CInit ==
    /\ EInit /\ caller = "quiet"
    /\ cpc = "choose"
    /\ origin = "none"
    /\ strips = <<<<>>, <<>>, <<>>>>
    /\ data = <<>>
    /\ dec = NoDec

\* encoded := encodeISODataBlock(strip1, strip2, strip3)
Encode ==
    /\ cpc = "choose"
    /\ \E t1 \in Payloads, t2 \in Payloads, t3 \in Payloads :
          /\ strips' = <<t1, t2, t3>>
          /\ data' = encodeISODataBlock(t1, t2, t3)
    /\ origin' = "encode"
    /\ cpc' = "encoded"
    /\ UNCHANGED <<dec, pvars, fvars, evars, hvars>>
    /\ UNCHANGED gvars

\* a frame cut short before it reaches decode
Truncate ==
    /\ cpc = "encoded"
    /\ \E n \in 0..(Len(data) - 1) : data' = SubSeq(data, 1, n)
    /\ origin' = "truncated"
    /\ cpc' = "ready"
    /\ UNCHANGED <<strips, dec, pvars, fvars, evars, hvars>>
    /\ UNCHANGED gvars

\* any byte string handed to decode
Feed ==
    /\ cpc = "choose"
    /\ data' \in HeadInputs \cup FramedInputs \cup MarkedInputs
    /\ origin' = "raw"
    /\ cpc' = "ready"
    /\ UNCHANGED <<strips, dec, pvars, fvars, evars, hvars>>
    /\ UNCHANGED gvars

\* decodeISODataBlock(data)
Decode ==
    /\ cpc \in {"encoded", "ready"}
    /\ dec' = decodeISODataBlock(data)
    /\ cpc' = "decoded"
    /\ UNCHANGED <<origin, strips, data, pvars, fvars, evars, hvars>>
    /\ UNCHANGED gvars

CNext == Encode \/ Truncate \/ Feed \/ Decode

SpecCodec == CInit /\ [][CNext]_vars

----------------------------------------------------------------------------
(* The device handle in use *)

CodecIdle ==
    /\ cpc = "choose" /\ origin = "none" /\ strips = E3 /\ data = <<>> /\ dec = NoDec

\* every method with every argument, each called on a quiet line
FInit == EInit /\ caller = "quiet" /\ CodecIdle

FNext ==
    \/ ReadTracks \/ ReadRawTracks \/ WriteTracks \/ WriteRawTracks
    \/ EraseTracks \/ SetCoercivity \/ SetBPC
    \/ SetBPI \/ SetBPINone \/ SetBPINext
    \/ Reset
    \/ DrainRead \/ WriteOK \/ WriteFail
    \/ PollData \/ PollEmpty \/ PollError \/ PollTimeout
    \/ Return
    \/ Arrive

SpecFacade == FInit /\ [][FNext]_vars

\* methods called one after another on the same handle while bytes of earlier
\* answers may still be outstanding
Init == EInit /\ caller = "eager" /\ CodecIdle

Next ==
    \/ ReadTracks \/ SetCoercivity \/ Reset
    \/ DrainRead \/ WriteOK \/ WriteFail
    \/ PollData \/ PollEmpty \/ PollError \/ PollTimeout
    \/ Return
    \/ Arrive

Spec == Init /\ [][Next]_vars

\* the same calls with the calling goroutine always running on: a step of
\* executeWaitResult that can be taken is taken
EngineStep ==
    DrainRead \/ WriteOK \/ WriteFail \/ PollData \/ PollEmpty \/ PollError \/ PollTimeout

LNext ==
    \/ ReadTracks \/ SetCoercivity \/ Reset
    \/ EngineStep
    \/ Return
    \/ Arrive

SpecLive == Init /\ [][LNext]_vars /\ WF_vars(EngineStep)

\* two goroutines on a fresh handle, each calling SetCoercivity once
CoInit == EInit /\ caller = "pair" /\ CodecIdle

CoNext ==
    \/ SetCoercivity
    \/ DrainRead \/ WriteOK \/ WriteFail
    \/ PollData \/ PollEmpty \/ PollError \/ PollTimeout
    \/ Return
    \/ Call2
    \/ DrainRead2 \/ WriteOK2 \/ WriteFail2
    \/ PollData2 \/ PollEmpty2 \/ PollError2 \/ PollTimeout2
    \/ Return2
    \/ Arrive

SpecConcurrent == CoInit /\ [][CoNext]_vars

----------------------------------------------------------------------------
(* Codec claims *)

EscapeFree(s) == ~Contains(s, EscapeCode)
Decoded == cpc = "decoded"
StartsWithHeader(d) ==
    /\ Len(d) >= 4
    /\ d[1] = EscapeCode /\ d[2] = ChS /\ d[3] = EscapeCode /\ d[4] = Mark1
EndsWithTrailer(d) ==
    /\ Len(d) >= 2
    /\ d[Len(d) - 1] = ChQ /\ d[Len(d)] = EndCode
NoTracks == dec.strip1 = <<>> /\ dec.strip2 = <<>> /\ dec.strip3 = <<>>

\* C1: for all escape-free t1, t2, t3 (empty ones included),
\* decode(encode(t1,t2,t3)) succeeds and returns exactly (t1,t2,t3).
C1_RoundTrip ==
    (Decoded /\ origin = "encode" /\ \A i \in 1..3 : EscapeFree(strips[i]))
        => dec = DecodeOK(strips[1], strips[2], strips[3])

\* C5: a frame encoded with an empty track 1, an empty track 2 or an empty
\* track 3 decodes without error, to the empty string for that track and to
\* the encoded payloads for the others.
C5_EmptyFieldLegal ==
    (Decoded /\ origin = "encode" /\ \E i \in 1..3 : strips[i] = <<>>)
        => /\ dec.err = "none"
           /\ dec.strip1 = strips[1]
           /\ dec.strip2 = strips[2]
           /\ dec.strip3 = strips[3]

\* C6: every input shorter than 4 bytes, or whose first 4 bytes are not
\* ESC 's' ESC 0x01, gets the header error and no tracks, whatever the rest
\* of the input is (terminator present or not, delimiters present or not).
C6_HeaderErrorFirst ==
    (Decoded /\ ~StartsWithHeader(data))
        => dec.err = "header" /\ NoTracks

\* C6 witness: a 4-byte start that is not the header, followed by a
\* well-formed rest ending in the terminator, was decoded to the header error.
C6_Witness ==
    /\ Decoded /\ origin = "raw"
    /\ Len(data) > 4 /\ ~StartsWithHeader(data) /\ EndsWithTrailer(data)
    /\ Contains(data, Mark3)
    /\ dec.err = "header"

\* C7: every input that starts with the header but does not end in '?' FS
\* gets the terminator error and no tracks; so does every proper prefix, of
\* length at least 4, of an encoded frame that does not itself end in '?' FS.
C7_MissingTerminator ==
    /\ (Decoded /\ StartsWithHeader(data) /\ ~EndsWithTrailer(data))
           => dec.err = "end" /\ NoTracks
    /\ (Decoded /\ origin = "truncated" /\ Len(data) >= 4 /\ ~EndsWithTrailer(data))
           => dec.err = "end" /\ NoTracks

\* C7 witness: a frame cut in the middle of track 3, all delimiters present,
\* was decoded to the terminator error.
C7_Witness ==
    /\ Decoded /\ origin = "truncated"
    /\ Len(data) > 4 /\ ~EndsWithTrailer(data)
    /\ data[Len(data)] = ChA /\ data[Len(data) - 1] = Mark3
    /\ dec.err = "end"

----------------------------------------------------------------------------
(* Engine and method claims *)

\* the device's answer has the form D ++ ESC ++ s, s a status byte other than ESC
AnswerShape(a) ==
    /\ Len(a) >= 2
    /\ a[Len(a) - 1] = EscapeCode
    /\ a[Len(a)] # EscapeCode
AnswerStatus(a) == a[Len(a)]
AnswerData(a) == SubSeq(a, 1, Len(a) - 2)
EngineReturned == pc = "done"

\* C2: when the device answers D ++ ESC ++ s (D possibly with escape bytes in
\* it), the call returns status s and data D, however the bytes of the answer
\* are spread over the reads of the poll.
C2_LastEscapeSplit ==
    (EngineReturned /\ ~stale /\ AnswerShape(answer) /\ pollEnd = "escape")
        => /\ ret.err = "none"
           /\ ret.status = AnswerStatus(answer)
           /\ ret.data = AnswerData(answer)

\* the word that names each method in its status error
OpWord(m) ==
    CASE m \in {"ReadTracks", "ReadRawTracks"}   -> "read"
      [] m \in {"WriteTracks", "WriteRawTracks"} -> "write"
      [] m = "EraseTracks"                       -> "erase"
      [] m = "SetCoercivity"                     -> "set_coercivity"
      [] m = "SetBPC"                            -> "set_bpc"
      [] m = "SetBPI"                            -> "set_bpi"
NoResultOps == {"WriteTracks", "EraseTracks", "SetCoercivity", "SetBPC", "WriteRawTracks"}

\* C3: whenever a method returns after the engine gave it a status byte: a
\* status other than '0' makes the method fail with an error carrying that
\* byte and the method's word; status '0' makes write, erase, set coercivity,
\* set BPC and raw write succeed.
C3_StatusSurfaced ==
    [][ (fpc = "call" /\ fpc' = "idle" /\ ret.err = "none")
          => /\ (ret.status # 48)
                  => /\ fret'.err = "status"
                     /\ fret'.status = ret.status
                     /\ fret'.name = OpWord(op.name)
             /\ (ret.status = 48 /\ op.name \in NoResultOps)
                  => fret'.err = "none" ]_vars

\* C3 witness: SetBPI returned the status error for status '1'.
C3_Witness ==
    /\ fpc = "idle" /\ op.name = "SetBPI"
    /\ ret.err = "none" /\ ret.status = Ch1
    /\ fret.err = "status" /\ fret.status = Ch1 /\ fret.name = "set_bpi"

C8_TransportErrorSurfaced ==
    EngineReturned
        => /\ (pollEnd = "none") => (ret.err = "write")
           /\ (pollEnd = "error") => (ret.err = "read")

\* the method has passed its write
Written == pc \notin {"drain", "write"}

\* C9: EraseTracks(t1,t2,t3) writes exactly ESC 'c' and one mask byte in
\* 0..7 whose bit 0 is t1, bit 1 is t2 and bit 2 is t3.
C9_EraseMask ==
    (op.name = "EraseTracks" /\ Written)
        => /\ Len(wlog) = 1
           /\ Len(wlog[1]) = 3
           /\ wlog[1][1] = 27 /\ wlog[1][2] = 99
           /\ wlog[1][3] \in 0..7
           /\ (wlog[1][3] % 2 = 1) <=> op.args[1]
           /\ ((wlog[1][3] \div 2) % 2 = 1) <=> op.args[2]
           /\ ((wlog[1][3] \div 4) % 2 = 1) <=> op.args[3]

\* C9 witness: erase(true, false, true) has sent the mask 0x05.
C9_Witness ==
    /\ op.name = "EraseTracks" /\ op.args = <<TRUE, FALSE, TRUE>>
    /\ pc = "poll"
    /\ wlog = << <<27, 99, 5>> >>

\* the mode byte SetBPI sends for argument b of track k
ModeByte(k, b) ==
    CASE k = 1 -> (IF b = "HiBPI" THEN 161 ELSE 160)
      [] k = 2 -> (IF b = "HiBPI" THEN 210 ELSE 75)
      [] k = 3 -> (IF b = "HiBPI" THEN 193 ELSE 192)

\* C10: what each method writes is ESC, its command letter and its payload:
\* reset 'a', ISO read 'r', raw read 'm', set coercivity 'x' / 'y', alone;
\* ISO write 'w' and ESC 's' ESC 01 t1 ESC 02 t2 ESC 03 t3 '?' FS with the
\* payloads as given; set BPC 'o' and the three values as three bytes; every
\* set-BPI command 'b' and one mode byte.
C10_WireBytes ==
    /\ (op.name \in {"none", "Reset"}) => wlog = << <<27, 97>> >>
    /\ (op.name = "ReadTracks" /\ Written) => wlog = << <<27, 114>> >>
    /\ (op.name = "ReadRawTracks" /\ Written) => wlog = << <<27, 109>> >>
    /\ (op.name = "SetCoercivity" /\ Written)
          => wlog = << <<27, IF op.args[1] THEN 120 ELSE 121>> >>
    /\ (op.name = "WriteTracks" /\ Written)
          => wlog = << <<27, 119, 27, 115, 27, 1>> \o op.args[1] \o <<27, 2>>
                          \o op.args[2] \o <<27, 3>> \o op.args[3] \o <<63, 28>> >>
    /\ (op.name = "SetBPC" /\ Written)
          => wlog = << <<27, 111, op.args[1], op.args[2], op.args[3]>> >>
    /\ (op.name = "SetBPI")
          => \A i \in 1..Len(wlog) :
                /\ Len(wlog[i]) = 3
                /\ wlog[i][1] = 27 /\ wlog[i][2] = 98
                /\ \E k \in 1..3 : /\ op.args[k] # "nil"
                                   /\ wlog[i][3] = ModeByte(k, op.args[k])

\* C10 witness: WriteTracks with an escape byte in track 1 has been written.
C10_Witness ==
    /\ op.name = "WriteTracks" /\ pc = "poll"
    /\ op.args = <<<<EscapeCode>>, <<ChA>>, <<>>>>
    /\ wlog = << <<27, 119, 27, 115, 27, 1, 27, 27, 2, 65, 27, 3, 63, 28>> >>

----------------------------------------------------------------------------
(* Engine claims: termination, reuse, order of operations, polling, parsing *)

\* C11 (termination): every call of executeWaitResult that has started
\* returns, whatever the device sends or does not send.
C11_Terminates == (pc = "drain") ~> EngineReturned

\* C11: when a call returns after polling, the time since the start of the
\* poll is at most the response timeout, so that the call lasts at most the
\* settle delay plus the response timeout.
C11_BoundedByTimeout ==
    (EngineReturned /\ pollEnd # "none") => elapsed <= TimeoutTicks

\* a is the beginning of b
IsPrefix(a, b) == Len(a) <= Len(b) /\ SubSeq(b, 1, Len(a)) = a

\* C12: with calls made one after another, the data, status and result a
\* call returns are bytes of the device's answer to that call's own command,
\* never bytes the device sent in answer to an earlier command.
C12_OwnResponseOnly ==
    (EngineReturned /\ ret.err = "none")
        => IsPrefix(ret.data \o <<EscapeCode, ret.status>> \o ret.result, answer)

\* the drain reads of a call: none that returned bytes, or some
DrainPart == {<<>>, <<"drain">>}

\* C13: the transport operations of one call are, in this order: the drain
\* reads, the last of which is the first to return zero bytes; one write, of
\* ESC and the command; poll reads only after a write that succeeded and
\* none after a write that failed. The response buffer is empty until the
\* write has been done.
C13_OperationOrder ==
    /\ (pc = "drain") => (trace \in DrainPart /\ response = <<>>)
    /\ (pc = "write") => /\ trace \in {d \o <<"drain0">> : d \in DrainPart}
                         /\ response = <<>>
    /\ (pc = "poll")
          => /\ trace \in {d \o w : d \in DrainPart,
                                     w \in {<<"drain0", "write">>,
                                            <<"drain0", "write", "poll">>}}
             /\ wlog[Len(wlog)] = <<27>> \o command
    /\ (EngineReturned /\ ret.err = "write")
          => /\ trace \in {d \o <<"drain0", "writefail">> : d \in DrainPart}
             /\ wlog[Len(wlog)] = <<27>> \o command
             /\ response = <<>>
    /\ (EngineReturned /\ ret.err # "write")
          => /\ trace \in {d \o w : d \in DrainPart,
                                     w \in {<<"drain0", "write">>,
                                            <<"drain0", "write", "poll">>}}
             /\ wlog[Len(wlog)] = <<27>> \o command

\* C13 witness: a call drained stale bytes, its write failed, and it
\* returned the write error without a poll read.
C13_Witness ==
    /\ EngineReturned /\ ret.err = "write"
    /\ trace = <<"drain", "drain0", "writefail">>
    /\ response = <<>>

\* C14: a poll read that returns bytes appends them to the buffer, and
\* polling ends with it exactly when the buffer then contains an escape
\* byte; a zero-byte read without error is retried, and only while time
\* remains; polling otherwise ends at a read error or when the timeout has
\* elapsed. So while polling goes on the buffer holds no escape byte, and
\* when it ends no escape byte lies before the bytes of the last read.
C14_PollStopsAtEscape ==
    [][ (pc = "poll")
          => /\ ~Contains(response, 27)
             /\ (response' # response)
                   => /\ elapsed < TimeoutTicks
                      /\ response' = response \o rx /\ rx # <<>> /\ rx' = <<>>
                      /\ (pc' = "done") <=> Contains(response', 27)
             /\ (response' = response /\ elapsed' # elapsed)
                   => (elapsed < TimeoutTicks /\ pc' = "poll")
             /\ (pc' = "done")
                   => \/ (pollEnd' = "escape" /\ Contains(response', 27))
                      \/ (pollEnd' = "error" /\ response' = response
                             /\ elapsed < TimeoutTicks)
                      \/ (pollEnd' = "timeout" /\ response' = response
                             /\ elapsed >= TimeoutTicks)
      ]_vars

\* C14 witness: polling ended at the read that brought the escape byte,
\* before the status byte had arrived.
C14_Witness ==
    /\ EngineReturned /\ pollEnd = "escape"
    /\ response = <<ChA, EscapeCode>>
    /\ answer = <<ChA, EscapeCode, Ch0>>
    /\ wire = <<Ch0>>

\* the three error returns of the engine
EngineError(e) == [status |-> 0, result |-> <<>>, data |-> <<>>, err |-> e]

\* C15: the outcome of a call that polled is fixed by its buffer: empty,
\* Timeout; not empty and without escape byte, InvalidResponseFormat; ending
\* in an escape byte, IncompleteResponse; any other buffer, success. Each
\* error comes with status 0 and empty result and data.
C15_OutcomeByBuffer ==
    (EngineReturned /\ pollEnd # "none")
        => /\ (response = <<>>) => ret = EngineError("timeout")
           /\ (response # <<>> /\ EscapeFree(response))
                 => ret = EngineError("format")
           /\ (response # <<>> /\ response[Len(response)] = 27)
                 => ret = EngineError("incomplete")
           /\ (response # <<>> /\ ~EscapeFree(response)
                            /\ response[Len(response)] # 27)
                 => ret.err = "none"

\* C15 witness: a buffer without escape byte gave InvalidResponseFormat.
C15_Witness ==
    /\ EngineReturned /\ pollEnd = "timeout"
    /\ response = <<ChA>>
    /\ ret = EngineError("format")

\* C16: on success, with pos the place of the last escape byte of the
\* buffer, status is the byte after it, result the bytes after that and
\* data the bytes before it; data, ESC, status, result together are the
\* buffer; status and result hold no escape byte; data is empty exactly
\* when pos = 0 and result exactly when the status byte ends the buffer.
C16_SplitAtLastEscape ==
    (EngineReturned /\ ret.err = "none")
        => \E pos \in 0..(Len(response) - 2) :
              /\ response[pos + 1] = 27
              /\ \A k \in (pos + 2)..Len(response) : response[k] # 27
              /\ ret.status = response[pos + 2]
              /\ ret.result = SubSeq(response, pos + 3, Len(response))
              /\ ret.data = SubSeq(response, 1, pos)
              /\ ret.data \o <<27, ret.status>> \o ret.result = response
              /\ ret.status # 27 /\ EscapeFree(ret.result)
              /\ (ret.data = <<>>) <=> (pos = 0)
              /\ (ret.result = <<>>) <=> (pos + 2 = Len(response))

\* C16 witness: a buffer with several escape bytes was split at the last.
C16_Witness ==
    /\ EngineReturned /\ ret.err = "none"
    /\ response = Frame \o <<EscapeCode, Ch0>>
    /\ ret.data = Frame /\ ret.status = Ch0 /\ ret.result = <<>>

\* the bytes of the response before its last escape byte
DataPortion(r) == SubSeq(r, 1, LastIndex(r, EscapeCode))

\* C17: ReadTracks returns the engine's error if there is one; else the
\* status error if the status is not '0'; else the three tracks decode
\* gives on the bytes before the last escape byte of the response, or
\* decode's error. It returns no track data together with an error.
C17_DecodeAfterSuccess ==
    (fpc = "idle" /\ op.name = "ReadTracks")
        => /\ (ret.err # "none") => fret = FretErr(ret.err)
           /\ (ret.err = "none" /\ ret.status # 48)
                 => /\ fret.err = "status" /\ fret.status = ret.status
                    /\ fret.out = E3
           /\ (ret.err = "none" /\ ret.status = 48)
                 => LET d == decodeISODataBlock(DataPortion(response)) IN
                    IF d.err = "none"
                    THEN fret.err = "none"
                         /\ fret.out = <<d.strip1, d.strip2, d.strip3>>
                    ELSE fret.err = d.err /\ fret.out = E3
           /\ (fret.err # "none") => fret.out = E3

\* C17 witness: ReadTracks got a track block and status '0' and returned
\* the three tracks.
C17_Witness ==
    /\ fpc = "idle" /\ op.name = "ReadTracks"
    /\ response = Frame \o <<EscapeCode, Ch0>>
    /\ fret.err = "none" /\ fret.out = <<<<ChA>>, <<ChA>>, <<ChA>>>>

----------------------------------------------------------------------------
(* Codec claims: delimiters, track 3, empty-track placeholders *)

DelimiterErrors == {"esc1", "marker2", "esc2", "marker3"}

\* what decode returns for a field f: f itself when it is a non-empty
\* payload; nothing when it is an escape byte and one more byte
FieldGives(f, strip) ==
    \/ f # <<>> /\ EscapeFree(f) /\ strip = f
    \/ Len(f) = 2 /\ f[1] = 27 /\ strip = <<>>

\* C18: decode succeeds only on header, field 1, ESC 0x02, field 2, ESC 0x03
\* and at least one more byte, in that order, and then tracks 1 and 2 hold no
\* escape byte; an input with header and terminator but no escape byte from
\* offset 4 on gets a delimiter error; every delimiter error returns no
\* tracks, and an input with header and terminator gets success or a
\* delimiter error.
C18_DelimitersRequired ==
    Decoded
        => /\ (dec.err = "none")
                 => /\ \E m2 \in 5..Len(data), m3 \in 5..Len(data) :
                          /\ m2 + 2 <= m3 /\ m3 + 1 < Len(data)
                          /\ data[m2] = 27 /\ data[m2 + 1] = 2
                          /\ data[m3] = 27 /\ data[m3 + 1] = 3
                          /\ FieldGives(SubSeq(data, 5, m2 - 1), dec.strip1)
                          /\ FieldGives(SubSeq(data, m2 + 2, m3 - 1), dec.strip2)
                    /\ EscapeFree(dec.strip1) /\ EscapeFree(dec.strip2)
           /\ (StartsWithHeader(data) /\ EndsWithTrailer(data)
                  /\ EscapeFree(SubSeq(data, 5, Len(data))))
                 => dec.err \in DelimiterErrors
           /\ (dec.err \in DelimiterErrors) => NoTracks
           /\ (StartsWithHeader(data) /\ EndsWithTrailer(data))
                 => dec.err \in DelimiterErrors \cup {"none"}

\* C18 witness: an input whose first field is followed by an escape byte
\* and a byte other than 0x02 got the delimiter error of track 2.
C18_Witness ==
    /\ Decoded /\ origin = "raw"
    /\ data = Header \o <<ChA, EscapeCode, ChA>> \o Trailer
    /\ dec.err = "marker2" /\ NoTracks

\* the length of the field a returned track was read from
FieldLen(strip) == IF strip = <<>> THEN 2 ELSE Len(strip)

\* C19: on success, with the region of track 3 running from just after the
\* ESC 0x03 marker to the terminator: track 3 is that region when its first
\* byte is not an escape byte, and empty when it is; escape bytes further
\* on in the region are returned as part of track 3.
C19_Track3Region ==
    (Decoded /\ dec.err = "none")
        => LET p == 4 + FieldLen(dec.strip1) + 2 + FieldLen(dec.strip2) + 2 IN
           /\ p <= Len(data) - 2
           /\ data[p - 1] = 27 /\ data[p] = 3
           /\ dec.strip3 = IF data[p + 1] # 27
                            THEN SubSeq(data, p + 1, Len(data) - 2)
                            ELSE <<>>

\* C19 witness: a track 3 with an escape byte after its first byte was
\* returned whole.
C19_Witness ==
    /\ Decoded /\ dec.err = "none"
    /\ dec.strip3 = <<ChA, EscapeCode>>

\* the first strip is passed: 0-based offset of the second strip, or -1
Strip2Start(d) ==
    IF Len(d) > 4 /\ d[5] = 27
    THEN IF Len(d) > 8 /\ d[7] = 27 /\ d[8] = 2 THEN 8 ELSE -1
    ELSE IF \E i \in 6..(Len(d) - 2) :
               /\ d[i] = 27 /\ d[i + 1] = 2 /\ i + 1 < Len(d)
               /\ \A j \in 5..(i - 1) : d[j] # 27
         THEN (CHOOSE i \in 6..(Len(d) - 2) :
                  /\ d[i] = 27 /\ d[i + 1] = 2
                  /\ \A j \in 5..(i - 1) : d[j] # 27) + 1
         ELSE -1

\* C20: on an input with header and terminator, an escape byte where a
\* track starts makes that byte and the next one, whatever it is, stand for
\* an empty track: decode goes on exactly when the two bytes after them are
\* the marker (ESC 0x02 after track 1, ESC 0x03 after track 2) and more
\* input follows, and then returns the empty string for that track;
\* otherwise it fails with the delimiter error of that marker.
C20_EmptyTrackPlaceholder ==
    (Decoded /\ StartsWithHeader(data) /\ EndsWithTrailer(data))
        => /\ (Len(data) > 4 /\ data[5] = 27)
                 => IF Len(data) > 8 /\ data[7] = 27 /\ data[8] = 2
                    THEN dec.err \notin {"esc1", "marker2"} /\ dec.strip1 = <<>>
                    ELSE dec.err = "marker2"
           /\ LET p == Strip2Start(data) IN
              (p # -1 /\ data[p + 1] = 27)
                 => IF Len(data) > p + 4 /\ data[p + 3] = 27 /\ data[p + 4] = 3
                    THEN dec.err = "none" /\ dec.strip2 = <<>>
                    ELSE dec.err = "marker3"

\* C20 witness: ESC 'A' as track 1 and ESC ESC as track 2, each followed
\* by its marker, were decoded as two empty tracks.
C20_Witness ==
    /\ Decoded /\ origin = "raw"
    /\ data = Header \o <<EscapeCode, ChA, EscapeCode, Mark2,
                           EscapeCode, EscapeCode, EscapeCode, Mark3, ChA>> \o Trailer
    /\ dec = DecodeOK(<<>>, <<>>, <<ChA>>)

\* C21: for escape-free t1, t2, t3, decode(encode(t1,t2,t3)) returns
\* exactly (t1,t2,t3) or an error, never another triple.
C21_NoWrongTriple ==
    (Decoded /\ origin = "encode" /\ \A i \in 1..3 : EscapeFree(strips[i]))
        => \/ dec.err # "none"
           \/ (dec.strip1 = strips[1] /\ dec.strip2 = strips[2]
                  /\ dec.strip3 = strips[3])

\* C21 witness: a triple whose third track holds the two terminator bytes
\* was encoded and decoded to itself.
C21_Witness ==
    /\ Decoded /\ origin = "encode"
    /\ strips = <<<<ChA>>, <<ChQ>>, <<ChQ, EndCode>>>>
    /\ dec = DecodeOK(<<ChA>>, <<ChQ>>, <<ChQ, EndCode>>)

\* what decode may return without panicking
DecodeErrors == {"header", "end", "esc1", "marker2", "esc2", "marker3"}

\* C22: on every input decode returns an error or three strings, no index
\* or slice it evaluates being out of range; when track 3 is sliced, the
\* slice starts at most at len(input) - 2.
C22_DecodeTotal ==
    Decoded
        => /\ dec.err \in DecodeErrors \cup {"none"}
           /\ (dec.err = "none")
                 => 4 + FieldLen(dec.strip1) + 2 + FieldLen(dec.strip2) + 2
                        <= Len(data) - 2

\* C22 witness: the skip of an empty track 1 moved the scan past the
\* terminator and decode returned a delimiter error.
C22_Witness ==
    /\ Decoded /\ origin = "raw"
    /\ data = Header \o <<EscapeCode>> \o Trailer
    /\ dec = DecodeFail("marker2")

----------------------------------------------------------------------------
(* Method claims: SetBPI, Reset; concurrent callers; the read timeout *)

\* the command SetBPI writes for track k, if the track's parameter is set
BPIWrite(args, k) ==
    IF args[k] = "nil" THEN <<>> ELSE << <<27, 98, ModeByte(k, args[k])>> >>
BPIWrites(args) == BPIWrite(args, 1) \o BPIWrite(args, 2) \o BPIWrite(args, 3)
AllUnset == <<"nil", "nil", "nil">>

\* C23: what SetBPI has written is always a beginning of: one 'b' command
\* with one mode byte per track whose parameter is set, in the order 1, 2,
\* 3. A command is sent only after the previous one has returned status
\* '0'; SetBPI returns success exactly when the last command it sent returned
\* status '0', and then every command has been sent; on failure nothing more
\* is written. With all three unset it does no transport operation and
\* returns success.
C23_SetBPISequence ==
    /\ [](op.name = "SetBPI"
            => /\ IsPrefix(wlog, BPIWrites(op.args))
               /\ (fpc = "idle" /\ fret.err = "none") => wlog = BPIWrites(op.args)
               /\ (op.args = AllUnset) => (wlog = <<>> /\ fret.err = "none"))
    /\ [][ /\ (fpc = "call" /\ op.name = "SetBPI" /\ pc = "done" /\ pc' = "drain")
               => (ret.err = "none" /\ ret.status = 48)
           /\ (fpc = "call" /\ op.name = "SetBPI" /\ fpc' = "idle")
               => /\ wlog' = wlog
                  /\ (fret'.err = "none") <=> (ret.err = "none" /\ ret.status = 48)
           /\ (op'.name = "SetBPI" /\ op'.args = AllUnset)
               => (rx' = rx /\ wire' = wire /\ trace' = trace /\ pc' = pc)
         ]_vars

\* C23 witness: with all three tracks set, the second command got status
\* '1'; SetBPI returned the error and the third command was not sent.
C23_Witness ==
    /\ fpc = "idle" /\ op.name = "SetBPI"
    /\ op.args = <<"HiBPI", "LoBPI", "HiBPI">>
    /\ wlog = << <<27, 98, 161>>, <<27, 98, 75>> >>
    /\ fret.err = "status" /\ fret.status = Ch1

\* C24: reset writes exactly ESC 'a' and does nothing else on the
\* transport: no read, so the bytes buffered or in flight stay as they are;
\* it returns success exactly when the write succeeded and the write error
\* when it failed.
C24_ResetWritesOnly ==
    /\ [](op.name = "Reset"
            => /\ wlog = << <<27, 97>> >>
               /\ trace \in {<<"write">>, <<"writefail">>}
               /\ (fret.err = "none") <=> (trace = <<"write">>)
               /\ (trace = <<"writefail">>) => (fret.err = "write"))
    /\ [][ (op'.name = "Reset"
              /\ <<op, wlog, fret, trace>>' # <<op, wlog, fret, trace>>)
             => (rx' = rx /\ wire' = wire /\ readTimeout' = readTimeout)
         ]_vars

\* C24 witness: reset succeeded while bytes of an earlier answer were
\* buffered, and they are still there.
C24_Witness ==
    /\ op.name = "Reset" /\ fret.err = "none" /\ trace = <<"write">>
    /\ rx = <<EscapeCode, Ch1>>

\* the transport reads in the history of a call
Reads == {"drain", "drain0", "poll"}

\* C26: on every handle, the first call included, a read timeout has been
\* set on the port before any read is issued.
C26_TimeoutSetBeforeRead ==
    (\E i \in 1..Len(trace) : trace[i] \in Reads) => readTimeout # "unset"

\* a call is between its entry into executeWaitResult and its return
Running == {"drain", "write", "poll"}

\* C25: of two methods called concurrently on one handle, one's whole
\* engine invocation (drain, write, poll) is over before the other's begins.
C25_NoInterleaving == ~(pc \in Running /\ pc2 \in Running)

====
